---- MODULE Spec2Model ----
(***************************************************************************)
(* binsign: sign_file / verify_file (src/src/lib.rs) and the SignedFile    *)
(* bundle codec (src/src/signed_file.rs).                                  *)
(*                                                                         *)
(* Bytes are ByteBits wide and a u64 is U64Bytes bytes wide, so that the   *)
(* byte streams stay small enough to enumerate.  The three library calls   *)
(* the pipelines rest on are modelled by what they do to bytes:            *)
(*   bincode 1.x   fixed-width little-endian integers, a length prefix in  *)
(*                 front of the byte buffer, trailing bytes allowed by     *)
(*                 bincode::deserialize;                                   *)
(*   zstd::bulk    a frame of magic, block type, content size and body     *)
(*                 (raw or run-length block); decompress takes the         *)
(*                 capacity of the destination buffer, not the exact size; *)
(*   ed25519/blake3  collision-free digest and deterministic, unforgeable  *)
(*                 signature over the digest.                              *)
(***************************************************************************)
EXTENDS Integers, Sequences, FiniteSets, TLC

\* ------------------------------------------------------------- bounds
\* longest input file, in bytes
MaxLen == 3
\* width of a byte, in bits
ByteBits == 2
\* width of a u64 (file_size, bincode length prefix, frame content size), in bytes
U64Bytes == 2

ByteMod == 2 ^ ByteBits
Byte == 0 .. (ByteMod - 1)
U64Max == (ByteMod ^ U64Bytes) - 1

\* the byte values input files and payloads are drawn from
FileBytes == {0, ByteMod - 1}

\* ------------------------------------------------------------- bytes
\* all byte sequences of length at most n
SeqsUpTo(S, n) == UNION { [1 .. k -> S] : k \in 0 .. n }

\* one bit of one byte changed
FlipBit(b, i) == IF (b \div (2 ^ i)) % 2 = 1 THEN b - (2 ^ i) ELSE b + (2 ^ i)

\* the byte at position pos of s has bit i changed
FlipAt(s, pos, i) == [s EXCEPT ![pos] = FlipBit(s[pos], i)]

\* u64 -> fixed-width little-endian bytes (bincode fixint encoding)
ToLE(n) == [i \in 1 .. U64Bytes |-> (n \div (ByteMod ^ (i - 1))) % ByteMod]

RECURSIVE FromLE(_)
\* fixed-width little-endian bytes -> u64
FromLE(s) == IF s = << >> THEN 0 ELSE Head(s) + ByteMod * FromLE(Tail(s))

\* ------------------------------------------------------------- digest
\* BlakeHasher is a 64-byte digest; here DigestLen bytes, wide enough that no two
\* files of at most MaxLen bytes collide.
DigestLen == MaxLen + 1

\* get_file_hasher + finalize_into: the digest of file_data (padded, then each byte
\* shifted by its position: injective on files of at most MaxLen bytes)
get_file_hasher(file_data) ==
    [i \in 1 .. DigestLen |->
        LET padded == IF i <= Len(file_data) THEN file_data[i]
                      ELSE IF i = Len(file_data) + 1 THEN 1 ELSE 0
        IN  (padded + i) % ByteMod]

\* ------------------------------------------------------------- keys
SigningKeys == {1, 2}

\* SigningKey::verifying_key
verifying_key(sk) == sk + 10

VerifyingKeys == { verifying_key(sk) : sk \in SigningKeys }

\* ed25519 signature width (64 bytes in the crate)
SigLen == DigestLen + 1

\* SigningKey::sign_prehashed(file_hash, None): deterministic, one signature per
\* (key, digest)
sign_prehashed(sk, file_hash) ==
    << sk >> \o [i \in 1 .. DigestLen |-> (file_hash[i] + sk) % ByteMod]

\* verify_prehashed, were it to accept a signature made by any known key
verify_any_key(vk, file_hash, signature) ==
    \E sk \in SigningKeys : signature = sign_prehashed(sk, file_hash)

\* VerifyingKey::verify_prehashed(file_hasher, None, &signature): accepts exactly the
\* signature the matching signing key makes over the digest
verify_prehashed(vk, file_hash, signature) ==
    \E sk \in SigningKeys :
        /\ verifying_key(sk) = vk
        /\ signature = sign_prehashed(sk, file_hash)

\* ------------------------------------------------------------- zstd::bulk
\* the compression levels sign_file is called with (fast and maximal)
Levels == {-7, 22}

\* first byte of a frame (Zstandard magic number)
ZstdMagic == 2
RawBlock == 0
RleBlock == 1

\* Result<Vec<u8>, io::Error> of a library call
OkBytes(v) == [ok |-> TRUE, val |-> v]
ErrBytes == [ok |-> FALSE, val |-> << >>]

\* whether the compressor emits one run-length block for data at this level
UseRle(data, level) ==
    /\ level > 0
    /\ Len(data) >= 2
    /\ \A i \in 1 .. Len(data) : data[i] = data[1]

\* zstd::bulk::compress(&file_content, compression_level): one frame holding the
\* content size and either the bytes (raw block) or the repeated byte (RLE block)
zstd_compress(data, level) ==
    IF UseRle(data, level)
    THEN << ZstdMagic, RleBlock >> \o ToLE(Len(data)) \o << data[1] >>
    ELSE << ZstdMagic, RawBlock >> \o ToLE(Len(data)) \o data

\* zstd::bulk::decompress(&file_content, capacity): an error when the frame is
\* malformed or the content does not fit in capacity bytes, else the content.
\* capacity is the size of the destination buffer: more room than the content needs
\* is not an error.  An input of no frame at all decompresses to no bytes.
zstd_decompress(frame, capacity) ==
    IF frame = << >> THEN OkBytes(<< >>)
    ELSE IF Len(frame) < 2 + U64Bytes THEN ErrBytes
    ELSE IF frame[1] # ZstdMagic THEN ErrBytes
    ELSE
      LET block == frame[2]
          n     == FromLE(SubSeq(frame, 3, 2 + U64Bytes))
          body  == SubSeq(frame, 3 + U64Bytes, Len(frame))
      IN  IF block = RawBlock
          THEN IF Len(body) # n \/ n > capacity THEN ErrBytes ELSE OkBytes(body)
          ELSE IF block = RleBlock
          THEN IF Len(body) # 1 \/ n > capacity THEN ErrBytes
               ELSE OkBytes([i \in 1 .. n |-> body[1]])
          ELSE ErrBytes

\* ------------------------------------------------------------- SignedFile
\* SignedFile::new(file, signature, file_size)
SignedFile_new(file, signature, file_size) ==
    [signature |-> signature, file_size |-> file_size, file |-> file]

NoSignedFile == SignedFile_new(<< >>, << >>, 0)

\* bytes in front of the payload: signature, file_size, length prefix
HeaderLen == SigLen + U64Bytes + U64Bytes

\* encode, were the payload length written in front of file_size
SignedFile_encode_swapped(b) ==
    b.signature \o ToLE(Len(b.file)) \o ToLE(b.file_size) \o b.file

\* SignedFile::encode = bincode::serialize: the signature's bytes, file_size as a
\* fixed-width little-endian integer, the payload length likewise, the payload
SignedFile_encode(b) ==
    b.signature \o ToLE(b.file_size) \o ToLE(Len(b.file)) \o b.file

\* the payload length a byte stream declares (0 when the stream ends before it)
DeclaredLen(data) ==
    IF Len(data) < HeaderLen THEN 0
    ELSE FromLE(SubSeq(data, SigLen + U64Bytes + 1, HeaderLen))

\* SignedFile::decode = bincode::deserialize: an error when the stream ends before
\* a field is complete; bytes after the payload are left unread (bincode::deserialize
\* allows trailing bytes)
SignedFile_decode(data) ==
    IF Len(data) < HeaderLen THEN [ok |-> FALSE, val |-> NoSignedFile]
    ELSE IF DeclaredLen(data) > Len(data) - HeaderLen
         THEN [ok |-> FALSE, val |-> NoSignedFile]
    ELSE [ok  |-> TRUE,
          val |-> SignedFile_new(
                     SubSeq(data, HeaderLen + 1, HeaderLen + DeclaredLen(data)),
                     SubSeq(data, 1, SigLen),
                     FromLE(SubSeq(data, SigLen + 1, SigLen + U64Bytes)))]

\* ------------------------------------------------------------- state
VARIABLES
    fs,           \* the file system: path -> [exists, data]
    sk,           \* the signing key the private key file holds
    vk,           \* the verifying key the public key file holds
    pc,           \* where the running pipeline stands
    args,         \* the arguments of the running call
    fault,        \* the step at which the environment fails this run ("none": no step)
    loc,          \* the locals of the running call
    sres,         \* what the last sign_file returned
    vres,         \* what the last verify_file returned
    trace,        \* the steps the running call has started, in order
    before,       \* the output file as it was when the running call started
    tampered,     \* what was changed in the bundle after it was signed
    signed,       \* the bundles sign_file has written: {[path, level]}
    cb,           \* codec: the SignedFile value under test
    cstream,      \* codec: the byte stream handed to decode
    cres,         \* codec: what decode returned
    cpc           \* codec: position

pipeline == << fs, sk, vk, pc, args, fault, loc, sres, vres, trace, before,
               tampered, signed >>
codec == << cb, cstream, cres, cpc >>
vars == << fs, sk, vk, pc, args, fault, loc, sres, vres, trace, before,
           tampered, signed, cb, cstream, cres, cpc >>

FilePath == "file"
Paths == {"file", "file.sig", "out.sig", "file.sig.ver", "out.sig.ver"}
BundlePaths == {"file.sig", "out.sig"}

NoFile == [exists |-> FALSE, data |-> << >>]
File(data) == [exists |-> TRUE, data |-> data]

\* what an output path holds before any run, when it holds something
OldData == << 1 >>

\* Option<P>
None == "None"

\* lib.rs 52-60 / 93-101: the given output path, or the input path with the suffix
OutputPath(output_path, file_path, suffix) ==
    IF output_path = None THEN file_path \o suffix ELSE output_path

NoLocals ==
    [signing_key |-> 0, verifying_key |-> 0, file_content |-> << >>,
     original_file_size |-> 0, file_hash |-> << >>, signature |-> << >>,
     signed_file |-> NoSignedFile, encoded_file |-> << >>]

NoArgs == [file_path |-> None, output_path |-> None, compression_level |-> 0]

\* the steps of the two pipelines, in program order
SignSteps ==
    << "read_key", "read_file", "hash", "sign", "compress", "new", "encode", "write" >>
VerifySteps ==
    << "read_key", "read_file", "decode", "decompress", "hash", "verify", "write" >>

\* the steps of sign_file / verify_file at which the environment can fail a run
SignFaults == {"none", "key_io", "key_parse", "read_file", "sign", "compress",
               "encode", "write"}
VerifyFaults == {"none", "key_io", "key_parse", "read_file", "write"}

\* BinsignError
Errors == {"FileIO", "PrivateKeyDeserialization", "PublicKeyDeserialization",
           "Signing", "Verification", "FileEncoding", "FileDecoding",
           "ZstdCompression", "ZstdDecompression"}

CodecIdle == /\ cb = NoSignedFile /\ cstream = << >>
             /\ cres = [ok |-> FALSE, val |-> NoSignedFile] /\ cpc = "off"

Init ==
    /\ \E data \in SeqsUpTo(FileBytes, MaxLen), old \in BOOLEAN :
         fs = [p \in Paths |->
                 IF p = FilePath THEN File(data)
                 ELSE IF old THEN File(OldData) ELSE NoFile]
    /\ sk \in SigningKeys
    /\ vk = 0
    /\ pc = "idle"
    /\ args = NoArgs
    /\ fault = "none"
    /\ loc = NoLocals
    /\ sres = "none"
    /\ vres = "none"
    /\ trace = << >>
    /\ before = NoFile
    /\ tampered = "none"
    /\ signed = {}
    /\ CodecIdle

\* ------------------------------------------------------------- sign_file
\* a step of sign_file ends the run with error e
SignFail(e) ==
    /\ sres' = e
    /\ pc' = "s_done"

\* sign_file is called: first with no output path, then, once a bundle is written,
\* with an explicit one
CallSign ==
    /\ \/ pc = "idle"
       \/ pc = "s_done" /\ sres = "Ok" /\ args.output_path = None /\ tampered = "none"
    /\ \E level \in Levels, f \in SignFaults :
         /\ args' = [file_path |-> FilePath,
                     output_path |-> IF pc = "idle" THEN None ELSE "out.sig",
                     compression_level |-> level]
         /\ fault' = f
    /\ before' = fs[OutputPath(args'.output_path, FilePath, ".sig")]
    /\ loc' = NoLocals
    /\ sres' = "none"
    /\ trace' = << >>
    /\ pc' = "s_read_key"
    /\ UNCHANGED << fs, sk, vk, vres, tampered, signed, codec >>

\* lib.rs 62: read_keypair_from_file(signing_key_path)?
SignReadKey ==
    /\ pc = "s_read_key"
    /\ trace' = Append(trace, "read_key")
    /\ IF fault = "key_io" THEN SignFail("FileIO") /\ UNCHANGED loc
       ELSE IF fault = "key_parse"
            THEN SignFail("PrivateKeyDeserialization") /\ UNCHANGED loc
       ELSE /\ loc' = [loc EXCEPT !.signing_key = sk, !.verifying_key = verifying_key(sk)]
            /\ pc' = "s_read_file"
            /\ UNCHANGED sres
    /\ UNCHANGED << fs, sk, vk, args, fault, vres, before, tampered, signed, codec >>

\* lib.rs 64-65: fs::read(file_path), size_of_val
SignReadFile ==
    /\ pc = "s_read_file"
    /\ trace' = Append(trace, "read_file")
    /\ IF fault = "read_file" \/ ~fs[args.file_path].exists
       THEN SignFail("FileIO") /\ UNCHANGED loc
       ELSE /\ loc' = [loc EXCEPT !.file_content = fs[args.file_path].data,
                                  !.original_file_size = Len(fs[args.file_path].data)]
            /\ pc' = "s_hash"
            /\ UNCHANGED sres
    /\ UNCHANGED << fs, sk, vk, args, fault, vres, before, tampered, signed, codec >>

\* SignHash, were the signing step left out after it
SignHash_skip_sign ==
    /\ pc = "s_hash"
    /\ trace' = Append(trace, "hash")
    /\ loc' = [loc EXCEPT !.file_hash = get_file_hasher(loc.file_content)]
    /\ pc' = "s_compress"
    /\ UNCHANGED << fs, sk, vk, args, fault, sres, vres, before, tampered, signed, codec >>

\* lib.rs 68: get_file_hasher(&file_content)
SignHash ==
    /\ pc = "s_hash"
    /\ trace' = Append(trace, "hash")
    /\ loc' = [loc EXCEPT !.file_hash = get_file_hasher(loc.file_content)]
    /\ pc' = "s_sign"
    /\ UNCHANGED << fs, sk, vk, args, fault, sres, vres, before, tampered, signed, codec >>

\* SignSign, were the digest taken over the compressed bytes
SignSign_compressed ==
    /\ pc = "s_sign"
    /\ trace' = Append(trace, "sign")
    /\ IF fault = "sign" THEN SignFail("Signing") /\ UNCHANGED loc
       ELSE /\ loc' = [loc EXCEPT
                         !.signature = sign_prehashed(loc.signing_key,
                            get_file_hasher(zstd_compress(loc.file_content,
                                                          args.compression_level)))]
            /\ pc' = "s_compress"
            /\ UNCHANGED sres
    /\ UNCHANGED << fs, sk, vk, args, fault, vres, before, tampered, signed, codec >>

\* lib.rs 70-72: signing_key.sign_prehashed(file_hash, None)
SignSign ==
    /\ pc = "s_sign"
    /\ trace' = Append(trace, "sign")
    /\ IF fault = "sign" THEN SignFail("Signing") /\ UNCHANGED loc
       ELSE /\ loc' = [loc EXCEPT
                         !.signature = sign_prehashed(loc.signing_key, loc.file_hash)]
            /\ pc' = "s_compress"
            /\ UNCHANGED sres
    /\ UNCHANGED << fs, sk, vk, args, fault, vres, before, tampered, signed, codec >>

\* lib.rs 74-75: zstd::bulk::compress(&file_content, compression_level)
SignCompress ==
    /\ pc = "s_compress"
    /\ trace' = Append(trace, "compress")
    /\ IF fault = "compress" THEN SignFail("ZstdCompression") /\ UNCHANGED loc
       ELSE /\ loc' = [loc EXCEPT !.file_content =
                         zstd_compress(loc.file_content, args.compression_level)]
            /\ pc' = "s_new"
            /\ UNCHANGED sres
    /\ UNCHANGED << fs, sk, vk, args, fault, vres, before, tampered, signed, codec >>

\* lib.rs 76: SignedFile::new(file_content, signature, original_file_size as u64)
SignNew ==
    /\ pc = "s_new"
    /\ trace' = Append(trace, "new")
    /\ loc' = [loc EXCEPT !.signed_file =
                 SignedFile_new(loc.file_content, loc.signature,
                                loc.original_file_size % (U64Max + 1))]
    /\ pc' = "s_encode"
    /\ UNCHANGED << fs, sk, vk, args, fault, sres, vres, before, tampered, signed, codec >>

\* lib.rs 78: signed_file.encode()?
SignEncode ==
    /\ pc = "s_encode"
    /\ trace' = Append(trace, "encode")
    /\ IF fault = "encode" THEN SignFail("FileEncoding") /\ UNCHANGED loc
       ELSE /\ loc' = [loc EXCEPT !.encoded_file = SignedFile_encode(loc.signed_file)]
            /\ pc' = "s_write"
            /\ UNCHANGED sres
    /\ UNCHANGED << fs, sk, vk, args, fault, vres, before, tampered, signed, codec >>

\* lib.rs 80-81: fs::write(output_path, encoded_file); a failed write leaves the file
\* as it was or created and empty
SignWrite ==
    /\ pc = "s_write"
    /\ trace' = Append(trace, "write")
    /\ LET out == OutputPath(args.output_path, args.file_path, ".sig")
       IN  IF fault = "write"
           THEN /\ \E left \in {fs[out], File(<< >>)} : fs' = [fs EXCEPT ![out] = left]
                /\ sres' = "FileIO"
                /\ UNCHANGED signed
           ELSE /\ fs' = [fs EXCEPT ![out] = File(loc.encoded_file)]
                /\ sres' = "Ok"
                /\ signed' = signed \cup
                     {[path |-> out, level |-> args.compression_level]}
    /\ pc' = "s_done"
    /\ UNCHANGED << sk, vk, args, fault, loc, vres, before, tampered, codec >>

\* ------------------------------------------------------------- the bundle in storage
\* the byte positions of the bundle's fields
FieldPositions(kind, data) ==
    IF kind = "signature" THEN 1 .. SigLen
    ELSE IF kind = "file_size" THEN (SigLen + 1) .. (SigLen + U64Bytes)
    ELSE IF kind = "length" THEN (SigLen + U64Bytes + 1) .. HeaderLen
    ELSE (HeaderLen + 1) .. Len(data)

\* between sign_file and verify_file the bundle just written is changed once: one bit
\* of one field, a byte appended, or the last byte cut off
Tamper ==
    /\ pc = "s_done"
    /\ sres = "Ok"
    /\ tampered = "none"
    /\ LET out  == OutputPath(args.output_path, args.file_path, ".sig")
           data == fs[out].data
       IN  \/ \E kind \in {"signature", "file_size", "length", "payload"} :
                \E pos \in FieldPositions(kind, data), i \in 0 .. (ByteBits - 1) :
                  /\ fs' = [fs EXCEPT ![out] = File(FlipAt(data, pos, i))]
                  /\ tampered' = kind
           \/ \E b \in Byte :
                  /\ fs' = [fs EXCEPT ![out] = File(Append(data, b))]
                  /\ tampered' = "append"
           \/ /\ fs' = [fs EXCEPT ![out] = File(SubSeq(data, 1, Len(data) - 1))]
              /\ tampered' = "truncate"
    /\ UNCHANGED << sk, vk, pc, args, fault, loc, sres, vres, trace, before, signed,
                    codec >>

\* ------------------------------------------------------------- verify_file
\* a step of verify_file ends the run with error e
VerifyFail(e) ==
    /\ vres' = e
    /\ pc' = "v_done"

\* verify_file is called on a bundle path (the changed bundle, if one was changed)
\* with a public key file and no output path
CallVerify ==
    /\ pc = "s_done"
    /\ \E path \in BundlePaths, key \in VerifyingKeys, f \in VerifyFaults :
         /\ tampered # "none" =>
              path = OutputPath(args.output_path, args.file_path, ".sig")
         /\ args' = [file_path |-> path, output_path |-> None, compression_level |-> 0]
         /\ vk' = key
         /\ fault' = f
    /\ before' = fs[OutputPath(None, args'.file_path, ".ver")]
    /\ loc' = NoLocals
    /\ vres' = "none"
    /\ trace' = << >>
    /\ pc' = "v_read_key"
    /\ UNCHANGED << fs, sk, sres, tampered, signed, codec >>

\* lib.rs 103: read_verifying_key_from_file(verifying_key_path)?
VerifyReadKey ==
    /\ pc = "v_read_key"
    /\ trace' = Append(trace, "read_key")
    /\ IF fault = "key_io" THEN VerifyFail("FileIO") /\ UNCHANGED loc
       ELSE IF fault = "key_parse"
            THEN VerifyFail("PublicKeyDeserialization") /\ UNCHANGED loc
       ELSE /\ loc' = [loc EXCEPT !.verifying_key = vk]
            /\ pc' = "v_read_file"
            /\ UNCHANGED vres
    /\ UNCHANGED << fs, sk, vk, args, fault, sres, before, tampered, signed, codec >>

\* lib.rs 105: fs::read(file_path)
VerifyReadFile ==
    /\ pc = "v_read_file"
    /\ trace' = Append(trace, "read_file")
    /\ IF fault = "read_file" \/ ~fs[args.file_path].exists
       THEN VerifyFail("FileIO") /\ UNCHANGED loc
       ELSE /\ loc' = [loc EXCEPT !.file_content = fs[args.file_path].data]
            /\ pc' = "v_decode"
            /\ UNCHANGED vres
    /\ UNCHANGED << fs, sk, vk, args, fault, sres, before, tampered, signed, codec >>

\* lib.rs 107-110: SignedFile::decode(file_content)? and its three fields
VerifyDecode ==
    /\ pc = "v_decode"
    /\ trace' = Append(trace, "decode")
    /\ LET d == SignedFile_decode(loc.file_content)
       IN  IF ~d.ok THEN VerifyFail("FileDecoding") /\ UNCHANGED loc
           ELSE /\ loc' = [loc EXCEPT !.signed_file = d.val,
                                      !.signature = d.val.signature,
                                      !.file_content = d.val.file,
                                      !.original_file_size = d.val.file_size]
                /\ pc' = "v_decompress"
                /\ UNCHANGED vres
    /\ UNCHANGED << fs, sk, vk, args, fault, sres, before, tampered, signed, codec >>

\* lib.rs 112-113: zstd::bulk::decompress(&file_content, original_file_size as usize)
VerifyDecompress ==
    /\ pc = "v_decompress"
    /\ trace' = Append(trace, "decompress")
    /\ LET d == zstd_decompress(loc.file_content, loc.original_file_size)
       IN  IF ~d.ok THEN VerifyFail("ZstdDecompression") /\ UNCHANGED loc
           ELSE /\ loc' = [loc EXCEPT !.file_content = d.val]
                /\ pc' = "v_hash"
                /\ UNCHANGED vres
    /\ UNCHANGED << fs, sk, vk, args, fault, sres, before, tampered, signed, codec >>

\* lib.rs 115: get_file_hasher(&file_content)
VerifyHash ==
    /\ pc = "v_hash"
    /\ trace' = Append(trace, "hash")
    /\ loc' = [loc EXCEPT !.file_hash = get_file_hasher(loc.file_content)]
    /\ pc' = "v_verify"
    /\ UNCHANGED << fs, sk, vk, args, fault, sres, vres, before, tampered, signed, codec >>

\* VerifyVerify, were the decoded file written before the signature is checked
VerifyVerify_write_first ==
    /\ pc = "v_verify"
    /\ trace' = Append(trace, "verify")
    /\ fs' = [fs EXCEPT ![OutputPath(args.output_path, args.file_path, ".ver")] =
                File(loc.file_content)]
    /\ IF ~verify_prehashed(loc.verifying_key, loc.file_hash, loc.signature)
       THEN VerifyFail("Verification")
       ELSE pc' = "v_write" /\ UNCHANGED vres
    /\ UNCHANGED << sk, vk, args, fault, loc, sres, before, tampered, signed, codec >>

\* VerifyVerify, were a rejected signature reported with the signing step's tag
VerifyVerify_signing_tag ==
    /\ pc = "v_verify"
    /\ trace' = Append(trace, "verify")
    /\ IF ~verify_prehashed(loc.verifying_key, loc.file_hash, loc.signature)
       THEN VerifyFail("Signing")
       ELSE pc' = "v_write" /\ UNCHANGED vres
    /\ UNCHANGED << fs, sk, vk, args, fault, loc, sres, before, tampered, signed, codec >>

\* lib.rs 117-119: verifying_key.verify_prehashed(file_hasher, None, &signature)
VerifyVerify ==
    /\ pc = "v_verify"
    /\ trace' = Append(trace, "verify")
    /\ IF ~verify_prehashed(loc.verifying_key, loc.file_hash, loc.signature)
       THEN VerifyFail("Verification")
       ELSE pc' = "v_write" /\ UNCHANGED vres
    /\ UNCHANGED << fs, sk, vk, args, fault, loc, sres, before, tampered, signed, codec >>

\* VerifyWrite, were the still compressed payload written out
VerifyWrite_compressed ==
    /\ pc = "v_write"
    /\ trace' = Append(trace, "write")
    /\ LET out == OutputPath(args.output_path, args.file_path, ".ver")
       IN  IF fault = "write"
           THEN /\ \E left \in {fs[out], File(<< >>)} : fs' = [fs EXCEPT ![out] = left]
                /\ vres' = "FileIO"
           ELSE /\ fs' = [fs EXCEPT ![out] = File(loc.signed_file.file)]
                /\ vres' = "Ok"
    /\ pc' = "v_done"
    /\ UNCHANGED << sk, vk, args, fault, loc, sres, before, tampered, signed, codec >>

\* lib.rs 121-122: fs::write(output_path, file_content); a failed write leaves the
\* file as it was or created and empty
VerifyWrite ==
    /\ pc = "v_write"
    /\ trace' = Append(trace, "write")
    /\ LET out == OutputPath(args.output_path, args.file_path, ".ver")
       IN  IF fault = "write"
           THEN /\ \E left \in {fs[out], File(<< >>)} : fs' = [fs EXCEPT ![out] = left]
                /\ vres' = "FileIO"
           ELSE /\ fs' = [fs EXCEPT ![out] = File(loc.file_content)]
                /\ vres' = "Ok"
    /\ pc' = "v_done"
    /\ UNCHANGED << sk, vk, args, fault, loc, sres, before, tampered, signed, codec >>

Next ==
    \/ CallSign
    \/ SignReadKey
    \/ SignReadFile
    \/ SignHash
    \/ SignSign
    \/ SignCompress
    \/ SignNew
    \/ SignEncode
    \/ SignWrite
    \/ Tamper
    \/ CallVerify
    \/ VerifyReadKey
    \/ VerifyReadFile
    \/ VerifyDecode
    \/ VerifyDecompress
    \/ VerifyHash
    \/ VerifyVerify
    \/ VerifyWrite

Spec == Init /\ [][Next]_vars

\* ------------------------------------------------------------- the codec alone
\* the SignedFile values the codec is tried on: any signature bytes, a file_size
\* that need not match the payload, any payload including the empty one
SignedFiles ==
    { SignedFile_new(file, signature, file_size) :
        file \in SeqsUpTo(FileBytes, MaxLen),
        signature \in [1 .. SigLen -> FileBytes],
        file_size \in {0, 1, U64Max} }

InitCodec ==
    /\ cb \in SignedFiles
    /\ cstream = << >>
    /\ cres = [ok |-> FALSE, val |-> NoSignedFile]
    /\ cpc = "new"
    /\ fs = [p \in Paths |-> NoFile]
    /\ sk = 1
    /\ vk = 0
    /\ pc = "off"
    /\ args = NoArgs
    /\ fault = "none"
    /\ loc = NoLocals
    /\ sres = "none"
    /\ vres = "none"
    /\ trace = << >>
    /\ before = NoFile
    /\ tampered = "none"
    /\ signed = {}

\* signed_file.encode()
CodecEncode ==
    /\ cpc = "new"
    /\ cstream' = SignedFile_encode(cb)
    /\ cpc' = "encoded"
    /\ UNCHANGED << cb, cres, pipeline >>

\* the encoded stream loses its last bytes
CodecTruncate ==
    /\ cpc = "encoded"
    /\ \E k \in 1 .. Len(cstream) : cstream' = SubSeq(cstream, 1, Len(cstream) - k)
    /\ cpc' = "changed"
    /\ UNCHANGED << cb, cres, pipeline >>

\* bytes are added after the payload
CodecExtend ==
    /\ cpc = "encoded"
    /\ \E extra \in SeqsUpTo(FileBytes, 2) \ {<< >>} : cstream' = cstream \o extra
    /\ cpc' = "changed"
    /\ UNCHANGED << cb, cres, pipeline >>

\* SignedFile::decode(data)
CodecDecode ==
    /\ cpc \in {"encoded", "changed"}
    /\ cres' = SignedFile_decode(cstream)
    /\ cpc' = IF cpc = "encoded" THEN "decoded" ELSE "decoded_changed"
    /\ UNCHANGED << cb, cstream, pipeline >>

NextCodec ==
    \/ CodecEncode
    \/ CodecTruncate
    \/ CodecExtend
    \/ CodecDecode

SpecCodec == InitCodec /\ [][NextCodec]_vars

\* ------------------------------------------------------------- properties
IsPrefix(s, t) == Len(s) <= Len(t) /\ s = SubSeq(t, 1, Len(s))

Last(s) == s[Len(s)]

InSign == pc \in {"s_read_key", "s_read_file", "s_hash", "s_sign", "s_compress",
                  "s_new", "s_encode", "s_write", "s_done"}
InVerify == pc \in {"v_read_key", "v_read_file", "v_decode", "v_decompress",
                    "v_hash", "v_verify", "v_write", "v_done"}

\* the output path of the running call
SignOut == OutputPath(args.output_path, args.file_path, ".sig")
VerifyOut == OutputPath(args.output_path, args.file_path, ".ver")

\* sign_file wrote the bundle at path p
IsSigned(p) == \E r \in signed : r.path = p

\* the input file's bytes
Original == fs[FilePath].data

\* verify_file has returned, having been given a bundle sign_file wrote, unchanged
\* since, and an environment that failed no step
VerifiedIntact ==
    /\ pc = "v_done"
    /\ fault = "none"
    /\ tampered = "none"
    /\ IsSigned(args.file_path)

\* C1: Round-trip. With no step failed by the environment, sign_file returns Ok and
\* writes a bundle, and verify_file on that bundle with the public key derived from
\* the signing key returns Ok and writes exactly the input file's bytes.
C1_RoundTrip ==
    /\ (pc = "s_done" /\ fault = "none") =>
          /\ sres = "Ok"
          /\ IsSigned(SignOut)
          /\ tampered = "none" => fs[SignOut] = File(loc.encoded_file)
    /\ (VerifiedIntact /\ vk = verifying_key(sk)) =>
          /\ vres = "Ok"
          /\ fs[VerifyOut] = File(Original)

\* C1 witness: a two-byte file of equal bytes signed at the maximal level (one
\* run-length block) came back byte for byte
C1_Witness ==
    /\ VerifiedIntact
    /\ vk = verifying_key(sk)
    /\ vres = "Ok"
    /\ Len(Original) = 2
    /\ \E r \in signed : r.path = args.file_path /\ UseRle(Original, r.level)
    /\ fs[VerifyOut] = File(Original)

\* C2: Tamper detection (as claimed). After one bit of the signature, of the payload
\* or of file_size of a bundle sign_file wrote is changed, verify_file with the
\* matching public key returns an error and leaves the output file as it was.
C2_TamperDetected ==
    (/\ pc = "v_done"
     /\ fault = "none"
     /\ tampered \in {"signature", "payload", "file_size"}
     /\ IsSigned(args.file_path)
     /\ vk = verifying_key(sk))
    => (vres \in Errors /\ fs[VerifyOut] = before)

\* C3: Wrong-key rejection. verify_file on an unchanged bundle sign_file wrote, given
\* the public key of another signing key, returns an error and leaves the output
\* file as it was; the error is Verification whenever key and bundle could be read.
C3_WrongKey ==
    (/\ pc = "v_done"
     /\ tampered = "none"
     /\ IsSigned(args.file_path)
     /\ vk # verifying_key(sk))
    => /\ vres \in Errors
       /\ fs[VerifyOut] = before
       /\ fault \notin {"key_io", "key_parse", "read_file"} => vres = "Verification"

\* C3 witness: a non-empty file signed with key 1, verified with the public key of 2
C3_Witness ==
    /\ pc = "v_done"
    /\ tampered = "none"
    /\ IsSigned(args.file_path)
    /\ sk = 1
    /\ vk = verifying_key(2)
    /\ Original # << >>
    /\ vres = "Verification"
    /\ fs[VerifyOut] = before

\* C4: No output on failure. Until the write step of sign_file / verify_file starts,
\* the output file is as it was when the call started; the write step starts only
\* after every earlier step has run and none has failed.
C4_NoOutputOnFailure ==
    /\ (InSign /\ (trace = << >> \/ Last(trace) # "write")) => fs[SignOut] = before
    /\ (InVerify /\ (trace = << >> \/ Last(trace) # "write")) => fs[VerifyOut] = before
    /\ pc = "s_write" => (sres = "none" /\ trace = SubSeq(SignSteps, 1, 7))
    /\ pc = "v_write" => (vres = "none" /\ trace = SubSeq(VerifySteps, 1, 6))
    /\ (InSign /\ trace # << >> /\ Last(trace) = "write") => trace = SignSteps
    /\ (InVerify /\ trace # << >> /\ Last(trace) = "write") => trace = VerifySteps

\* C4 witness: verify_file failed at signature verification over an output path that
\* held a file, and the file is as it was
C4_Witness ==
    /\ pc = "v_done"
    /\ vres = "Verification"
    /\ before = File(OldData)
    /\ fs[VerifyOut] = before

\* C5: Payload length validation (as claimed). decode returns an error whenever the
\* payload length the stream declares differs from the number of bytes that follow
\* the length field, fewer or more.
C5_LengthValidated ==
    (/\ cpc \in {"decoded", "decoded_changed"}
     /\ Len(cstream) >= HeaderLen
     /\ DeclaredLen(cstream) # Len(cstream) - HeaderLen)
    => ~cres.ok

\* C6: Size mismatch detection (as claimed). Once verify_file has decompressed the
\* payload of a bundle whose file_size differs from the input file's length, the run
\* has failed with the decompression error.
C6_SizeMismatch ==
    (/\ InVerify
     /\ "decompress" \in { trace[i] : i \in 1 .. Len(trace) }
     /\ pc # "v_decompress"
     /\ IsSigned(args.file_path)
     /\ tampered = "file_size")
    => vres = "ZstdDecompression"

\* C7: Codec round-trip. decode(encode(b)) succeeds and returns b's signature,
\* file_size and payload, for every SignedFile b.
C7_CodecRoundTrip ==
    cpc = "decoded" =>
       /\ cres.ok
       /\ cres.val.signature = cb.signature
       /\ cres.val.file_size = cb.file_size
       /\ cres.val.file = cb.file

\* C7 witness: the empty payload with file_size 0 came back
C7_Witness ==
    /\ cpc = "decoded"
    /\ cb.file = << >>
    /\ cb.file_size = 0
    /\ cres.ok
    /\ cres.val = cb

\* C8: Compression independence. Two bundles sign_file wrote for the same file and
\* key at different levels carry the same signature and file_size, the signature is
\* the one over the digest of the uncompressed bytes, and either bundle verifies.
C8_CompressionIndependent ==
    /\ tampered = "none" =>
         \A a \in signed, b \in signed :
            LET da == SignedFile_decode(fs[a.path].data).val
                db == SignedFile_decode(fs[b.path].data).val
            IN  /\ verify_prehashed(verifying_key(sk), get_file_hasher(Original),
                                    da.signature)
                /\ da.file_size = Len(Original)
                /\ a.level # b.level =>
                      (da.signature = db.signature /\ da.file_size = db.file_size)
    /\ (VerifiedIntact /\ vk = verifying_key(sk) /\ Cardinality(signed) = 2)
          => vres = "Ok"

\* C8 witness: the two bundles hold different payloads and the same signature, and
\* the first one verified
C8_Witness ==
    /\ VerifiedIntact
    /\ vk = verifying_key(sk)
    /\ args.file_path = "file.sig"
    /\ vres = "Ok"
    /\ \E a \in signed, b \in signed :
          /\ a.level # b.level
          /\ SignedFile_decode(fs[a.path].data).val.file
               # SignedFile_decode(fs[b.path].data).val.file
          /\ SignedFile_decode(fs[a.path].data).val.signature
               = SignedFile_decode(fs[b.path].data).val.signature

\* the errors a failure at each step may be reported with
SignTags(step) ==
    IF step = "read_key" THEN {"FileIO", "PrivateKeyDeserialization"}
    ELSE IF step \in {"read_file", "write"} THEN {"FileIO"}
    ELSE IF step = "sign" THEN {"Signing"}
    ELSE IF step = "compress" THEN {"ZstdCompression"}
    ELSE IF step = "encode" THEN {"FileEncoding"}
    ELSE {}
VerifyTags(step) ==
    IF step = "read_key" THEN {"FileIO", "PublicKeyDeserialization"}
    ELSE IF step \in {"read_file", "write"} THEN {"FileIO"}
    ELSE IF step = "decode" THEN {"FileDecoding"}
    ELSE IF step = "decompress" THEN {"ZstdDecompression"}
    ELSE IF step = "verify" THEN {"Verification"}
    ELSE {}

C10_StepOrder ==
    /\ InSign =>
          /\ IsPrefix(trace, SignSteps)
          /\ pc # "s_done" => sres = "none"
          /\ pc = "s_done" => sres \in Errors \cup {"Ok"}
          /\ sres = "Ok" => trace = SignSteps
    /\ InVerify =>
          /\ IsPrefix(trace, VerifySteps)
          /\ pc # "v_done" => vres = "none"
          /\ pc = "v_done" => vres \in Errors \cup {"Ok"}
          /\ vres = "Ok" => trace = VerifySteps

\* C10 witness: a verify_file run that stopped at decompression, after decode and
\* before hash
C10_Witness ==
    /\ pc = "v_done"
    /\ vres = "ZstdDecompression"
    /\ trace = SubSeq(VerifySteps, 1, 4)

====
